---- MODULE Spec2Model ----
(***************************************************************************)
(* Model of log_analyzer.py: the LogViewer state (logs, filtered_logs,     *)
(* current_level, current_index, search_terms) and the LogCLI.run command  *)
(* loop that drives it.  Text is modelled as sequences of one-character    *)
(* strings, so that strip(), the log_format regular expression, split('-') *)
(* and int() are computed character by character as the code does.         *)
(***************************************************************************)
EXTENDS Integers, Sequences, FiniteSets, TLC

VARIABLES
    file,           \* the lines of the log file, as read by `for line in file`
    logs,           \* LogViewer.logs
    filtered_logs,  \* LogViewer.filtered_logs
    current_level,  \* LogViewer.current_level
    current_index,  \* LogViewer.current_index
    search_terms,   \* LogViewer.search_terms
    command,        \* the local `command` of LogCLI.run: the command last read
    output,         \* what the last command wrote to the terminal
    pc              \* where LogCLI.run is: "prompt", "quit" or "crashed"

vars == <<file, logs, filtered_logs, current_level, current_index,
          search_terms, command, output, pc>>

\* The number of lines of the log file.
MaxLines == 2

----------------------------------------------------------------------------
(* Characters and character classes of the regular expression.             *)

Digit == {"0", "1", "2", "3", "4", "5", "6", "7", "8", "9"}

Upper == {"A", "B", "C", "D", "E", "F", "G", "H", "I", "J", "K", "L", "M",
          "N", "O", "P", "Q", "R", "S", "T", "U", "V", "W", "X", "Y", "Z"}

Lower == {"a", "b", "c", "d", "e", "f", "g", "h", "i", "j", "k", "l", "m",
          "n", "o", "p", "q", "r", "s", "t", "u", "v", "w", "x", "y", "z"}

\* [\w:] of the source group
SourceChar == Upper \cup Lower \cup Digit \cup {"_", ":"}

\* what str.strip() and int() treat as white space
Whitespace == {" ", "\t", "\n", "\r"}

\* The five level names, self.levels, as character sequences.
DEBUG == <<"D", "E", "B", "U", "G">>

INFO == <<"I", "N", "F", "O">>

WARNING == <<"W", "A", "R", "N", "I", "N", "G">>

ERROR == <<"E", "R", "R", "O", "R">>

CRITICAL == <<"C", "R", "I", "T", "I", "C", "A", "L">>

levels == <<DEBUG, INFO, WARNING, ERROR, CRITICAL>>

\* list.index(x), 0-based; -1 stands for the ValueError it raises.
Index(list, x) ==
    IF \E i \in 1..Len(list) : list[i] = x
    THEN (CHOOSE i \in 1..Len(list) :
              list[i] = x /\ \A j \in 1..(i - 1) : list[j] # x) - 1
    ELSE -1

Max(a, b) == IF a >= b THEN a ELSE b

----------------------------------------------------------------------------
(* str.strip()                                                             *)

RECURSIVE LStrip(_)
LStrip(s) ==
    IF s = <<>> \/ Head(s) \notin Whitespace THEN s ELSE LStrip(Tail(s))

RECURSIVE RStrip(_)
RStrip(s) ==
    IF s = <<>> \/ s[Len(s)] \notin Whitespace
    THEN s
    ELSE RStrip(SubSeq(s, 1, Len(s) - 1))

Strip(s) == RStrip(LStrip(s))

----------------------------------------------------------------------------
(* self.log_format and parse_log_line                                      *)

\* \d{4}-\d{2}-\d{2} \d{2}:\d{2}:\d{2},\d{3}  ("d" stands for \d)
DatetimePattern ==
    <<"d", "d", "d", "d", "-", "d", "d", "-", "d", "d", " ",
      "d", "d", ":", "d", "d", ":", "d", "d", ",", "d", "d", "d">>

MatchesDatetime(s) ==
    /\ Len(s) >= Len(DatetimePattern)
    /\ \A i \in 1..Len(DatetimePattern) :
           IF DatetimePattern[i] = "d"
           THEN s[i] \in Digit
           ELSE s[i] = DatetimePattern[i]

\* The end of the longest run of characters of class cls that starts at
\* position i of s (i - 1 when s[i] is not in cls): a greedy  [cls]* .
RECURSIVE RunEnd(_, _, _)
RunEnd(s, i, cls) ==
    IF i <= Len(s) /\ s[i] \in cls THEN RunEnd(s, i + 1, cls) ELSE i - 1

\* s has the literal lit at position i.
HasAt(s, i, lit) ==
    /\ i + Len(lit) - 1 <= Len(s)
    /\ \A k \in 1..Len(lit) : s[i + k - 1] = lit[k]

\* The end of the  .+  group that starts at i: up to the first newline.
RECURSIVE DotEnd(_, _)
DotEnd(s, i) ==
    IF i <= Len(s) /\ s[i] # "\n" THEN DotEnd(s, i + 1) ELSE i - 1

\* The value parse_log_line returns when the line does not match.
None == [datetime |-> <<>>, severity |-> <<>>, source |-> <<>>, message |-> <<>>]

\* parse_log_line with the datetime group closed before the milliseconds:
\* (?P<datetime>... \d{2}:\d{2}:\d{2}),\d{3}
parse_log_line_short_datetime(line) ==
    LET dtEnd  == Len(DatetimePattern)
        sevBeg == dtEnd + 3
        sevEnd == RunEnd(line, sevBeg, Upper)
        srcBeg == sevEnd + 3
        srcEnd == RunEnd(line, srcBeg, SourceChar)
        msgBeg == srcEnd + 4
        msgEnd == DotEnd(line, msgBeg)
    IN  IF /\ MatchesDatetime(line)
           /\ HasAt(line, dtEnd + 1, <<" ", "[">>)
           /\ sevEnd >= sevBeg
           /\ HasAt(line, sevEnd + 1, <<"]", " ">>)
           /\ srcEnd >= srcBeg
           /\ HasAt(line, srcEnd + 1, <<" ", "-", " ">>)
           /\ msgEnd >= msgBeg
        THEN [datetime |-> SubSeq(line, 1, dtEnd - 4),
              severity |-> SubSeq(line, sevBeg, sevEnd),
              source   |-> SubSeq(line, srcBeg, srcEnd),
              message  |-> SubSeq(line, msgBeg, msgEnd)]
        ELSE None

\* re.match of log_format on the line, and match.groupdict().  The classes
\* [A-Z] and [\w:] exclude the character that must follow them, so the greedy
\* runs are the only way the pattern can match.
parse_log_line(line) ==
    LET dtEnd  == Len(DatetimePattern)
        sevBeg == dtEnd + 3
        sevEnd == RunEnd(line, sevBeg, Upper)
        srcBeg == sevEnd + 3
        srcEnd == RunEnd(line, srcBeg, SourceChar)
        msgBeg == srcEnd + 4
        msgEnd == DotEnd(line, msgBeg)
    IN  IF /\ MatchesDatetime(line)
           /\ HasAt(line, dtEnd + 1, <<" ", "[">>)
           /\ sevEnd >= sevBeg
           /\ HasAt(line, sevEnd + 1, <<"]", " ">>)
           /\ srcEnd >= srcBeg
           /\ HasAt(line, srcEnd + 1, <<" ", "-", " ">>)
           /\ msgEnd >= msgBeg
        THEN [datetime |-> SubSeq(line, 1, dtEnd),
              severity |-> SubSeq(line, sevBeg, sevEnd),
              source   |-> SubSeq(line, srcBeg, srcEnd),
              message  |-> SubSeq(line, msgBeg, msgEnd)]
        ELSE None

\* load_logs that leaves the loop at the first line that does not parse
\* (break for skip).
RECURSIVE load_logs_stops(_)
load_logs_stops(f) ==
    IF f = <<>>
    THEN <<>>
    ELSE LET log_entry == parse_log_line(Strip(Head(f)))
         IN  IF log_entry # None
             THEN <<log_entry>> \o load_logs_stops(Tail(f))
             ELSE <<>>

\* load_logs: one record per line of the file that parses, in file order.
RECURSIVE load_logs(_)
load_logs(f) ==
    IF f = <<>>
    THEN <<>>
    ELSE LET log_entry == parse_log_line(Strip(Head(f)))
         IN  IF log_entry # None
             THEN <<log_entry>> \o load_logs(Tail(f))
             ELSE load_logs(Tail(f))

----------------------------------------------------------------------------
(* The log files and the typed commands the model draws from.              *)

Datetime ==
    <<"2", "0", "2", "4", "-", "0", "1", "-", "0", "1", " ",
      "0", "0", ":", "0", "0", ":", "0", "0", ",", "0", "0", "0">>

TRACE == <<"T", "R", "A", "C", "E">>

\* A line of the file as the producer writes it, with its newline.
LogLine(sev, msg) ==
    Datetime \o <<" ", "[">> \o sev \o <<"]", " ">> \o <<"a", ":", "b">>
             \o <<" ", "-", " ">> \o msg \o <<"\n">>

NotALogLine ==
    <<"n", "o", "t", " ", "a", " ", "l", "o", "g", " ", "l", "i", "n", "e", "\n">>

Lines ==
    {LogLine(sev, <<"x">>) : sev \in {DEBUG, INFO, WARNING, ERROR, CRITICAL, TRACE}}
        \cup {NotALogLine}

RECURSIVE SeqsUpTo(_, _)
SeqsUpTo(S, n) ==
    IF n = 0
    THEN {<<>>}
    ELSE LET shorter == SeqsUpTo(S, n - 1)
         IN  shorter \cup {Append(q, x) : q \in shorter, x \in S}

Files == SeqsUpTo(Lines, MaxLines)

\* What the user types at the prompt.
Inputs ==
    { <<"+">>, <<"-">>, <<"f", " ", "x">>, <<"f", " ", "X">>, <<"q">>,
      <<"u", "p">>, <<"d", "o", "w", "n">>,
      <<"0">>, <<"1">>, <<"2">>, <<"3">>, <<"4">>, <<"7">>,
      <<"3", "-", "1">>, <<"4", "-", "0">>, <<"1", "-", "0">>,
      <<"9", "-", "3">>, <<"a", "-", "1">>, <<"1", "-", "2", "-", "3">>,
      <<" ", "r">> }

----------------------------------------------------------------------------
(* str.split('-') and int()                                                *)

\* The position of the first sep in s, 0 when there is none.
FirstAt(s, sep) ==
    IF \E i \in 1..Len(s) : s[i] = sep
    THEN CHOOSE i \in 1..Len(s) : s[i] = sep /\ \A j \in 1..(i - 1) : s[j] # sep
    ELSE 0

RECURSIVE Split(_, _)
Split(s, sep) ==
    LET i == FirstAt(s, sep)
    IN  IF i = 0
        THEN <<s>>
        ELSE <<SubSeq(s, 1, i - 1)>> \o Split(SubSeq(s, i + 1, Len(s)), sep)

Signs == {"+", "-"}

\* The digits of the literal, after strip() and an optional sign.
Unsigned(s) ==
    LET t == Strip(s)
    IN  IF t # <<>> /\ Head(t) \in Signs THEN Tail(t) ELSE t

\* int(s) does not raise ValueError: digits, single underscores between them.
IsInt(s) ==
    LET u == Unsigned(s)
    IN  /\ u # <<>>
        /\ \A i \in 1..Len(u) : u[i] \in Digit \cup {"_"}
        /\ u[1] \in Digit /\ u[Len(u)] \in Digit
        /\ \A i \in 1..(Len(u) - 1) : ~(u[i] = "_" /\ u[i + 1] = "_")

DigitValue(d) ==
    CASE d = "0" -> 0 [] d = "1" -> 1 [] d = "2" -> 2 [] d = "3" -> 3
      [] d = "4" -> 4 [] d = "5" -> 5 [] d = "6" -> 6 [] d = "7" -> 7
      [] d = "8" -> 8 [] d = "9" -> 9

RECURSIVE Magnitude(_)
Magnitude(u) ==
    IF u = <<>>
    THEN 0
    ELSE IF u[Len(u)] = "_"
         THEN Magnitude(SubSeq(u, 1, Len(u) - 1))
         ELSE 10 * Magnitude(SubSeq(u, 1, Len(u) - 1)) + DigitValue(u[Len(u)])

IntValue(s) ==
    LET t == Strip(s)
    IN  IF t # <<>> /\ Head(t) = "-"
        THEN 0 - Magnitude(Unsigned(s))
        ELSE Magnitude(Unsigned(s))

----------------------------------------------------------------------------
(* LogViewer                                                               *)

\* self.levels.index(log['severity']) raises ValueError for some record of
\* the store: both filter_logs and get_logs_by_range visit every record.
SeverityLookupRaises ==
    \E i \in 1..Len(logs) : Index(levels, logs[i].severity) = -1

\* The list comprehension of filter_logs with > for >=.
RECURSIVE FilteredStrict(_, _)
FilteredStrict(store, level_index) ==
    IF store = <<>>
    THEN <<>>
    ELSE IF Index(levels, Head(store).severity) > level_index
         THEN <<Head(store)>> \o FilteredStrict(Tail(store), level_index)
         ELSE FilteredStrict(Tail(store), level_index)

\* The list comprehension of filter_logs.
RECURSIVE Filtered(_, _)
Filtered(store, level_index) ==
    IF store = <<>>
    THEN <<>>
    ELSE IF Index(levels, Head(store).severity) >= level_index
         THEN <<Head(store)>> \o Filtered(Tail(store), level_index)
         ELSE Filtered(Tail(store), level_index)

\* filter_logs with the comprehension assigned to self.logs as well: the
\* store is filtered in place.
filter_logs_in_place(level) ==
    /\ logs' = Filtered(logs, Index(levels, level))
    /\ filtered_logs' = Filtered(logs, Index(levels, level))
    /\ current_index' = 0
    /\ UNCHANGED search_terms

\* filter_logs(level), when no lookup raises.
filter_logs(level) ==
    /\ filtered_logs' = Filtered(logs, Index(levels, level))
    /\ current_index' = 0
    /\ UNCHANGED <<logs, search_terms>>

\* The loop of get_logs_by_range with the slice starting one record too
\* early: logs[i - count - 1:i + 1].
RECURSIVE RangeResultWide(_, _, _)
RangeResultWide(i, level_index, count) ==
    IF i >= Len(logs)
    THEN <<>>
    ELSE IF Index(levels, logs[i + 1].severity) >= level_index
         THEN SubSeq(logs, Max(0, i - count - 1) + 1, i + 1)
                  \o RangeResultWide(i + 1, level_index, count)
         ELSE RangeResultWide(i + 1, level_index, count)

\* The loop of get_logs_by_range over the records at 0-based positions
\* i .. len(logs) - 1; the slice logs[start:i + 1] is SubSeq(logs, start + 1, i + 1).
RECURSIVE RangeResult(_, _, _)
RangeResult(i, level_index, count) ==
    IF i >= Len(logs)
    THEN <<>>
    ELSE IF Index(levels, logs[i + 1].severity) >= level_index
         THEN SubSeq(logs, Max(0, i - count) + 1, i + 1)
                  \o RangeResult(i + 1, level_index, count)
         ELSE RangeResult(i + 1, level_index, count)

\* get_logs_by_range that also makes the queried level the threshold.
get_logs_by_range_sets_level(level, count) ==
    /\ filtered_logs' = RangeResult(0, Index(levels, level), count)
    /\ current_level' = level
    /\ UNCHANGED <<logs, current_index, search_terms>>

\* get_logs_by_range(level, count), when no lookup raises.
get_logs_by_range(level, count) ==
    /\ filtered_logs' = RangeResult(0, Index(levels, level), count)
    /\ UNCHANGED <<logs, current_level, current_index, search_terms>>

\* reset_view without its last statement: the search terms survive a reset.
reset_view_keeps_terms ==
    /\ filtered_logs' = logs
    /\ current_level' = DEBUG
    /\ current_index' = 0
    /\ UNCHANGED <<logs, search_terms>>

reset_view ==
    /\ filtered_logs' = logs
    /\ current_level' = DEBUG
    /\ current_index' = 0
    /\ search_terms' = <<>>
    /\ UNCHANGED logs

\* navigate_logs that wraps around at both ends instead of stopping.
navigate_logs_wraps(direction) ==
    /\ IF direction = "up"
       THEN current_index' =
                IF current_index > 0
                THEN current_index - 1
                ELSE Max(0, Len(filtered_logs) - 1)
       ELSE current_index' =
                IF current_index < Len(filtered_logs) - 1
                THEN current_index + 1
                ELSE 0
    /\ UNCHANGED <<logs, filtered_logs, current_level, search_terms>>

navigate_logs(direction) ==
    /\ IF direction = "up" /\ current_index > 0
       THEN current_index' = current_index - 1
       ELSE IF direction = "down" /\ current_index < Len(filtered_logs) - 1
            THEN current_index' = current_index + 1
            ELSE current_index' = current_index
    /\ UNCHANGED <<logs, filtered_logs, current_level, search_terms>>

\* add_search_term that also moves the cursor to the first visible record
\* whose message holds the term (the jump-to-match behaviour).
add_search_term_jumps(term) ==
    /\ IF \A i \in 1..Len(search_terms) : search_terms[i] # term
       THEN search_terms' = Append(search_terms, term)
       ELSE search_terms' = search_terms
    /\ current_index' =
           IF \E i \in 1..Len(filtered_logs) :
                  \E k \in 1..Len(filtered_logs[i].message) :
                      HasAt(filtered_logs[i].message, k, term)
           THEN 0
           ELSE current_index
    /\ UNCHANGED <<logs, filtered_logs, current_level>>

\* `term not in self.search_terms` compares the strings as they are.
add_search_term(term) ==
    /\ IF \A i \in 1..Len(search_terms) : search_terms[i] # term
       THEN search_terms' = Append(search_terms, term)
       ELSE search_terms' = search_terms
    /\ UNCHANGED <<logs, filtered_logs, current_level, current_index>>

----------------------------------------------------------------------------
(* LogCLI                                                                  *)

StartsWith(s, prefix) == HasAt(s, 1, prefix)

Contains(s, ch) == \E i \in 1..Len(s) : s[i] = ch

\* [str(i) for i in range(5)]
LevelNumbers == {<<"0">>, <<"1">>, <<"2">>, <<"3">>, <<"4">>}

\* The branch of the if/elif chain of run that takes command c.
Branch(c) ==
    IF c = <<"+">> THEN "increase"
    ELSE IF c = <<"-">> THEN "decrease"
    ELSE IF StartsWith(c, <<"f", " ">>) THEN "search"
    ELSE IF c = <<"q">> THEN "quit"
    ELSE IF c = <<"u", "p">> THEN "up"
    ELSE IF c = <<"d", "o", "w", "n">> THEN "down"
    ELSE IF c \in LevelNumbers THEN "number"
    ELSE IF Contains(c, "-") THEN "range"
    ELSE IF c = <<"r">> THEN "reset"
    ELSE "other"

Branches ==
    {"increase", "decrease", "search", "quit", "up", "down", "number", "range",
     "reset", "other"}

\* The typed inputs that each branch of run takes.
InputsOf == [b \in Branches |-> {typed \in Inputs : Branch(Strip(typed)) = b}]

\* command = input(...).strip()
Read(typed) ==
    /\ pc = "prompt"
    /\ command' = Strip(typed)

\* The statements that follow `self.viewer.current_level = level` in the three
\* threshold commands: filter_logs, whose ValueError nothing catches, and
\* display_logs.
FilterAndDisplay(level) ==
    IF SeverityLookupRaises
    THEN /\ pc' = "crashed"
         /\ output' = "traceback"
         /\ UNCHANGED <<logs, filtered_logs, current_index, search_terms>>
    ELSE /\ filter_logs(level)
         /\ output' = "display"
         /\ pc' = pc

increase_filter_level ==
    LET index == Index(levels, current_level)
    IN  IF index < Len(levels) - 1
        THEN /\ current_level' = levels[index + 2]
             /\ FilterAndDisplay(levels[index + 2])
        ELSE /\ output' = "none"
             /\ UNCHANGED <<logs, filtered_logs, current_level, current_index,
                            search_terms, pc>>

decrease_filter_level ==
    LET index == Index(levels, current_level)
    IN  IF index > 0
        THEN /\ current_level' = levels[index]
             /\ FilterAndDisplay(levels[index])
        ELSE /\ output' = "none"
             /\ UNCHANGED <<logs, filtered_logs, current_level, current_index,
                            search_terms, pc>>

set_filter_by_number(number) ==
    IF 0 <= number /\ number < Len(levels)
    THEN /\ current_level' = levels[number + 1]
         /\ FilterAndDisplay(levels[number + 1])
    ELSE /\ output' = "none"
         /\ UNCHANGED <<logs, filtered_logs, current_level, current_index,
                        search_terms, pc>>

\* The try block of handle_range_command raises ValueError: the unpacking of
\* split('-'), one of the two int() calls, or the severity lookup inside
\* get_logs_by_range.
RangeRaises(c) ==
    LET parts == Split(c, "-")
    IN  \/ Len(parts) # 2
        \/ ~IsInt(parts[1])
        \/ ~IsInt(parts[2])
        \/ /\ 0 <= IntValue(parts[1]) /\ IntValue(parts[1]) < Len(levels)
           /\ SeverityLookupRaises

\* handle_range_command that clamps the level to the highest one instead of
\* ignoring a level that is out of range.
handle_range_command_clamps(c) ==
    LET parts == Split(c, "-")
        level == IntValue(parts[1])
        count == IntValue(parts[2])
        clamped == IF level >= Len(levels) THEN Len(levels) - 1 ELSE Max(0, level)
    IN  IF \/ Len(parts) # 2
           \/ ~IsInt(parts[1])
           \/ ~IsInt(parts[2])
           \/ SeverityLookupRaises
        THEN /\ output' = "error"
             /\ UNCHANGED <<logs, filtered_logs, current_level, current_index,
                            search_terms>>
        ELSE /\ get_logs_by_range(levels[clamped + 1], count)
             /\ output' = "display"

handle_range_command(c) ==
    LET parts == Split(c, "-")
        level == IntValue(parts[1])
        count == IntValue(parts[2])
    IN  IF RangeRaises(c)
        THEN /\ output' = "error"
             /\ UNCHANGED <<logs, filtered_logs, current_level, current_index,
                            search_terms>>
        ELSE IF 0 <= level /\ level < Len(levels)
             THEN /\ get_logs_by_range(levels[level + 1], count)
                  /\ output' = "display"
             ELSE /\ output' = "none"
                  /\ UNCHANGED <<logs, filtered_logs, current_level,
                                 current_index, search_terms>>

----------------------------------------------------------------------------
(* The state after LogCLI.__init__, and one action per branch of run.      *)

Init ==
    /\ file \in Files
    /\ logs = load_logs(file)
    /\ filtered_logs = logs
    /\ current_level = DEBUG
    /\ current_index = 0
    /\ search_terms = <<>>
    /\ command = <<>>
    /\ output = "display"
    /\ pc = "prompt"

Increase ==
    \E typed \in InputsOf["increase"] :
        /\ Read(typed)
        /\ increase_filter_level
        /\ UNCHANGED file

Decrease ==
    \E typed \in InputsOf["decrease"] :
        /\ Read(typed)
        /\ decrease_filter_level
        /\ UNCHANGED file

Search ==
    \E typed \in InputsOf["search"] :
        /\ Read(typed)
        /\ add_search_term(SubSeq(Strip(typed), 3, Len(Strip(typed))))
        /\ output' = "display"
        /\ UNCHANGED <<file, pc>>

Quit ==
    \E typed \in InputsOf["quit"] :
        /\ Read(typed)
        /\ pc' = "quit"
        /\ output' = "none"
        /\ UNCHANGED <<file, logs, filtered_logs, current_level, current_index,
                       search_terms>>

NavigateUp ==
    \E typed \in InputsOf["up"] :
        /\ Read(typed)
        /\ navigate_logs("up")
        /\ output' = "display"
        /\ UNCHANGED <<file, pc>>

NavigateDown ==
    \E typed \in InputsOf["down"] :
        /\ Read(typed)
        /\ navigate_logs("down")
        /\ output' = "display"
        /\ UNCHANGED <<file, pc>>

SetFilter ==
    \E typed \in InputsOf["number"] :
        /\ Read(typed)
        /\ set_filter_by_number(IntValue(Strip(typed)))
        /\ UNCHANGED file

RangeCommand ==
    \E typed \in InputsOf["range"] :
        /\ Read(typed)
        /\ handle_range_command(Strip(typed))
        /\ UNCHANGED <<file, pc>>

Reset ==
    \E typed \in InputsOf["reset"] :
        /\ Read(typed)
        /\ reset_view
        /\ output' = "display"
        /\ UNCHANGED <<file, pc>>

Other ==
    \E typed \in InputsOf["other"] :
        /\ Read(typed)
        /\ output' = "display"
        /\ UNCHANGED <<file, logs, filtered_logs, current_level, current_index,
                       search_terms, pc>>

Next ==
    \/ Increase
    \/ Decrease
    \/ Search
    \/ Quit
    \/ NavigateUp
    \/ NavigateDown
    \/ SetFilter
    \/ RangeCommand
    \/ Reset
    \/ Other

Spec == Init /\ [][Next]_vars

----------------------------------------------------------------------------
(* Loading on its own: the construction of the viewer from files whose     *)
(* lines exercise every part of log_format.                                *)

\* The lines of Lines, and lines that miss the pattern in one place each or
\* match it in an unusual way.
LoadLines ==
    Lines \cup
    { <<" ", " ">> \o LogLine(ERROR, <<"x">>),
      <<"x">> \o LogLine(ERROR, <<"x">>),
      LogLine(ERROR, <<>>),
      LogLine(<<"e", "r", "r", "o", "r">>, <<"x">>),
      LogLine(<<>>, <<"x">>),
      LogLine(INFO, <<"y", " ", "-", " ", "[", "Z", "]", " ", "q", " ", " ">>),
      SubSeq(Datetime, 1, 19) \o <<" ", "[", "I", "N", "F", "O", "]", " ", "a",
                                   " ", "-", " ", "x", "\n">>,
      Datetime \o <<" ", "[", "I", "N", "F", "O", "]", " ", "a", ".", "b",
                    " ", "-", " ", "x", "\n">>,
      Datetime \o <<" ", "[", "I", "N", "F", "O", "]", " ", "a", "_", "1",
                    " ", "-", "x", "\n">>,
      <<"\n">> }

LoadFiles == SeqsUpTo(LoadLines, MaxLines)

\* Before LogCLI.__init__ has built the viewer.
InitLoad ==
    /\ file \in LoadFiles
    /\ logs = <<>>
    /\ filtered_logs = <<>>
    /\ current_level = DEBUG
    /\ current_index = 0
    /\ search_terms = <<>>
    /\ command = <<>>
    /\ output = "none"
    /\ pc = "start"

\* LogViewer.__init__ and the first display_logs.
Construct ==
    /\ pc = "start"
    /\ logs' = load_logs(file)
    /\ filtered_logs' = load_logs(file)
    /\ current_level' = DEBUG
    /\ current_index' = 0
    /\ search_terms' = <<>>
    /\ output' = "display"
    /\ pc' = "prompt"
    /\ UNCHANGED <<file, command>>

NextLoad == Construct

SpecLoad == InitLoad /\ [][NextLoad]_vars

----------------------------------------------------------------------------
(* Highlighting: apply_search_highlight, and the viewer with terms and      *)
(* messages that share text.  "ESC" is the one character \x1b.             *)

UpperLetters ==
    <<"A", "B", "C", "D", "E", "F", "G", "H", "I", "J", "K", "L", "M",
      "N", "O", "P", "Q", "R", "S", "T", "U", "V", "W", "X", "Y", "Z">>

LowerLetters ==
    <<"a", "b", "c", "d", "e", "f", "g", "h", "i", "j", "k", "l", "m",
      "n", "o", "p", "q", "r", "s", "t", "u", "v", "w", "x", "y", "z">>

\* str.lower()
ToLower(s) ==
    [i \in 1..Len(s) |->
        IF s[i] \in Upper THEN LowerLetters[Index(UpperLetters, s[i]) + 1] ELSE s[i]]

\* colorama's Back.YELLOW, Fore.BLACK and Style.RESET_ALL
BackYellow == <<"ESC", "[", "4", "3", "m">>

ForeBlack == <<"ESC", "[", "3", "0", "m">>

ResetAll == <<"ESC", "[", "0", "m">>

\* The pattern (re.escape(term)) matches at position p of text, under
\* re.IGNORECASE.
MatchAt(text, p, term) ==
    /\ term # <<>>
    /\ p + Len(term) - 1 <= Len(text)
    /\ ToLower(SubSeq(text, p, p + Len(term) - 1)) = ToLower(term)

\* re.sub of the term on text[p:]: every leftmost non-overlapping occurrence
\* is replaced by itself between the yellow/black markup and the reset.
RECURSIVE Sub(_, _, _)
Sub(term, text, p) ==
    IF p > Len(text)
    THEN <<>>
    ELSE IF MatchAt(text, p, term)
         THEN BackYellow \o ForeBlack \o SubSeq(text, p, p + Len(term) - 1)
                  \o ResetAll \o Sub(term, text, p + Len(term))
         ELSE <<text[p]>> \o Sub(term, text, p + 1)

\* The loop `for term in self.search_terms: message = re.sub(...)`.
RECURSIVE HighlightLoop(_, _)
HighlightLoop(terms, message) ==
    IF terms = <<>>
    THEN message
    ELSE HighlightLoop(Tail(terms), Sub(Head(terms), message, 1))

apply_search_highlight(message) == HighlightLoop(search_terms, message)

\* The number of search terms added in the highlighting runs.
MaxTerms == 2

HighlightMessages ==
    { <<"x">>, <<"E", "r", "r", "o", "r">>, <<"m", "i", "x">>, <<"e", "r", "r">> }

HighlightTerms ==
    { <<"x">>, <<"m">>, <<"e", "r", "r">>, <<"e", "r", "r", "o", "r">>, <<"i">> }

\* The viewer over a one-record store, before any term is added.
InitHighlight ==
    /\ file \in {<<LogLine(ERROR, m)>> : m \in HighlightMessages}
    /\ logs = load_logs(file)
    /\ filtered_logs = logs
    /\ current_level = DEBUG
    /\ current_index = 0
    /\ search_terms = <<>>
    /\ command = <<>>
    /\ output = "display"
    /\ pc = "prompt"

\* The 'f ' branch of run, for the terms of HighlightTerms.
SearchTerm ==
    \E term \in HighlightTerms :
        /\ Len(search_terms) < MaxTerms
        /\ Read(<<"f", " ">> \o term)
        /\ Branch(Strip(<<"f", " ">> \o term)) = "search"
        /\ add_search_term(SubSeq(Strip(<<"f", " ">> \o term), 3, Len(term) + 2))
        /\ output' = "display"
        /\ UNCHANGED <<file, pc>>

NextHighlight == SearchTerm

SpecHighlight == InitHighlight /\ [][NextHighlight]_vars

----------------------------------------------------------------------------
(* Vocabulary of the properties: what the specification text calls the     *)
(* severity index, the threshold view, the context windows, an invalid     *)
(* input.  None of it is used by the actions above.                        *)

\* The viewer's own fields.
viewer == <<logs, filtered_logs, current_level, current_index, search_terms>>

Up == <<"u", "p">>

Down == <<"d", "o", "w", "n">>

\* The position of a record's severity in the enumeration, -1 for a severity
\* that is not in it.
SeverityIndex(r) == Index(levels, r.severity)

\* The records of the store at or above level index k, in store order.
ThresholdView(k) == SelectSeq(logs, LAMBDA r : SeverityIndex(r) >= k)

\* The windows of the first m records of the store: for each record at or
\* above level index k, the n records before it and the record itself.
RECURSIVE WindowView(_, _, _)
WindowView(m, k, n) ==
    IF m = 0
    THEN <<>>
    ELSE WindowView(m - 1, k, n)
             \o (IF SeverityIndex(logs[m]) >= k
                 THEN SubSeq(logs, Max(1, m - n), m)
                 ELSE <<>>)

IsNumber(c) == c # <<>> /\ \A i \in 1..Len(c) : c[i] \in Digit

\* <level>-<count> with two integer parts.
WellFormedRange(c) ==
    /\ Len(Split(c, "-")) = 2
    /\ IsInt(Split(c, "-")[1])
    /\ IsInt(Split(c, "-")[2])

RangeLevel(c) == IntValue(Split(c, "-")[1])

RangeCount(c) == IntValue(Split(c, "-")[2])

\* A range query the command surface accepts.
ValidRange(c) ==
    /\ Branch(c) = "range"
    /\ WellFormedRange(c)
    /\ RangeLevel(c) \in 0..(Len(levels) - 1)
    /\ RangeCount(c) >= 0

\* A filter level outside 0-4, a range command with a level outside 0-4, a
\* range command with malformed syntax.
InvalidInput(c) ==
    \/ IsNumber(c) /\ IntValue(c) \notin 0..(Len(levels) - 1)
    \/ Branch(c) = "range" /\ ~WellFormedRange(c)
    \/ /\ Branch(c) = "range"
       /\ WellFormedRange(c)
       /\ RangeLevel(c) \notin 0..(Len(levels) - 1)

----------------------------------------------------------------------------
(* The properties.                                                         *)

\* C1: whenever filtered_logs is non-empty, 0 <= current_index <
\* len(filtered_logs); when it is empty, current_index is 0.
C1_CursorInBounds ==
    IF filtered_logs # <<>>
    THEN 0 <= current_index /\ current_index < Len(filtered_logs)
    ELSE current_index = 0

\* C2: after a set-threshold command with level number k in 0..4, the threshold
\* is levels[k], the visible subset is exactly the store records whose
\* severity index is >= k, in store order, and the cursor is 0.
C2_SetThresholdView ==
    command \in LevelNumbers =>
        /\ current_level = levels[IntValue(command) + 1]
        /\ filtered_logs = ThresholdView(IntValue(command))
        /\ current_index = 0

\* C3: every record of the store has a severity that is one of DEBUG, INFO,
\* WARNING, ERROR, CRITICAL.
C3_SeveritiesEnumerated ==
    \A i \in 1..Len(logs) : \E k \in 1..Len(levels) : logs[i].severity = levels[k]

\* C4: after a range query level-n, the visible subset is the concatenation,
\* in increasing store position, of the windows of the records whose severity
\* index is >= level: the n records before each one and the record itself,
\* clipped at the store start, overlaps kept.
C4_RangeQueryWindows ==
    ValidRange(command) =>
        filtered_logs = WindowView(Len(logs), RangeLevel(command), RangeCount(command))

\* C5: after reset the viewer is in its post-load state: the visible subset is
\* the full store, the threshold DEBUG, the cursor 0, no search terms.
C5_ResetRestoresLoadState ==
    command = <<"r">> =>
        /\ logs = load_logs(file)
        /\ filtered_logs = logs
        /\ current_level = DEBUG
        /\ current_index = 0
        /\ search_terms = <<>>

C5_Witness ==
    /\ command = <<"r">>
    /\ output = "display"
    /\ Len(filtered_logs) >= 2

\* C6, as claimed: 'down' with the cursor at the last index and 'up' with the
\* cursor at 0 change nothing of the viewer; in every other state the cursor
\* moves by exactly +1 (down) or -1 (up) and nothing else changes.
C6_StepCursorAsClaimed ==
    [][/\ command' = Down =>
              IF current_index = Len(filtered_logs) - 1
              THEN UNCHANGED viewer
              ELSE /\ current_index' = current_index + 1
                   /\ UNCHANGED <<logs, filtered_logs, current_level, search_terms>>
       /\ command' = Up =>
              IF current_index = 0
              THEN UNCHANGED viewer
              ELSE /\ current_index' = current_index - 1
                   /\ UNCHANGED <<logs, filtered_logs, current_level, search_terms>>]_vars

\* C6, amended: 'down' changes nothing of the viewer when no record follows
\* the cursor (current_index >= len(filtered_logs) - 1: the last index, an
\* empty visible subset, a cursor beyond the end) and 'up' changes nothing
\* when the cursor is 0; in every other state the cursor moves by exactly +1
\* (down) or -1 (up) and nothing else changes.
C6_StepCursorClamps ==
    [][/\ command' = Down =>
              IF current_index >= Len(filtered_logs) - 1
              THEN UNCHANGED viewer
              ELSE /\ current_index' = current_index + 1
                   /\ UNCHANGED <<logs, filtered_logs, current_level, search_terms>>
       /\ command' = Up =>
              IF current_index = 0
              THEN UNCHANGED viewer
              ELSE /\ current_index' = current_index - 1
                   /\ UNCHANGED <<logs, filtered_logs, current_level, search_terms>>]_vars

\* 'down' has moved the cursor to the last of two visible records.
C6_Witness ==
    /\ command = Down
    /\ Len(filtered_logs) = 2
    /\ current_index = 1

\* C7: a command that is an invalid input leaves the store, the threshold,
\* the visible subset, the cursor and the search terms as they were.
C7_InvalidInputChangesNothing ==
    [][InvalidInput(command') => UNCHANGED viewer]_vars

\* A range command with level 9 was given in a state that differs from the
\* load state, and printed nothing.
C7_Witness ==
    /\ command = <<"9", "-", "3">>
    /\ output = "none"
    /\ current_level = ERROR
    /\ search_terms # <<>>

\* C8: after a command that is an invalid input, an error report has been
\* written to the terminal.
C8_InvalidInputReported ==
    InvalidInput(command) => output = "error"

\* C9: no two active search terms are equal when compared case-insensitively.
C9_NoCaseInsensitiveDuplicates ==
    \A i, j \in 1..Len(search_terms) :
        i # j => ToLower(search_terms[i]) # ToLower(search_terms[j])

\* C10: no step changes the store: self.logs stays what load_logs returned.
C10_StoreNeverMutated ==
    [][logs' = logs]_vars

\* A range query has replaced the visible subset of a non-empty store after
\* the threshold and the search terms were changed.
C10_Witness ==
    /\ ValidRange(command)
    /\ filtered_logs # logs
    /\ current_level # DEBUG
    /\ search_terms # <<>>
    /\ logs = load_logs(file)
    /\ logs # <<>>

\* C11: a command that adds a search term changes neither the visible subset
\* nor the cursor nor the threshold (nor the store).
C11_AddTermChangesOnlyTerms ==
    [][Branch(command') = "search" =>
           UNCHANGED <<logs, filtered_logs, current_level, current_index>>]_vars

\* A second term was added while the cursor was on the second record of a view
\* narrowed by a threshold above DEBUG.
C11_Witness ==
    /\ Branch(command) = "search"
    /\ Len(search_terms) = 2
    /\ current_index = 1
    /\ current_level # DEBUG

\* increase, decrease or set by number
ThresholdCommand(c) == Branch(c) \in {"increase", "decrease", "number"}

\* C12: a threshold command either updates threshold, visible subset and
\* cursor together (the visible subset is the threshold view of the new
\* threshold, the cursor 0) or changes none of them: no step leaves the
\* threshold updated and the visible subset not.
C12_ThresholdCommandAtomic ==
    [][ThresholdCommand(command') =>
           \/ UNCHANGED <<current_level, filtered_logs, current_index>>
           \/ /\ filtered_logs' = ThresholdView(Index(levels, current_level'))
              /\ current_index' = 0]_vars

\* The visible subset that the set-threshold command for level index k leaves
\* when it is given in the current state: the threshold view of k, or, when
\* the store holds a severity that the lookup rejects, the visible subset as
\* it is.
LeftBySetThreshold(k) ==
    IF \A i \in 1..Len(logs) : SeverityIndex(logs[i]) >= 0
    THEN ThresholdView(k)
    ELSE filtered_logs

\* C13: from every state, the range query k-0 and the set-threshold command
\* for the same level k leave the same visible subset, records and order:
\* each of the two commands leaves LeftBySetThreshold(k).
C13_RangeZeroIsSetThreshold ==
    [][/\ command' \in LevelNumbers =>
              filtered_logs' = LeftBySetThreshold(IntValue(command'))
       /\ (ValidRange(command') /\ RangeCount(command') = 0) =>
              filtered_logs' = LeftBySetThreshold(RangeLevel(command'))]_vars

\* The range query 1-0 has left a visible subset that is neither empty nor
\* the whole store.
C13_Witness ==
    /\ command = <<"1", "-", "0">>
    /\ output = "display"
    /\ filtered_logs # <<>>
    /\ filtered_logs # logs

\* C14: '+' below CRITICAL sets the threshold one level up, '-' above DEBUG
\* one level down, and each refilters (the visible subset is the threshold
\* view of the new level) and sets the cursor to 0; '+' at CRITICAL and '-' at
\* DEBUG change nothing of the viewer.
C14_StepThreshold ==
    [][LET k == Index(levels, current_level)
       IN  /\ command' = <<"+">> =>
                  IF k < Len(levels) - 1
                  THEN /\ current_level' = levels[k + 2]
                       /\ filtered_logs' = ThresholdView(k + 1)
                       /\ current_index' = 0
                  ELSE UNCHANGED viewer
           /\ command' = <<"-">> =>
                  IF k > 0
                  THEN /\ current_level' = levels[k]
                       /\ filtered_logs' = ThresholdView(k - 1)
                       /\ current_index' = 0
                  ELSE UNCHANGED viewer]_vars

\* C15: the set-threshold command for DEBUG given right after a reset leaves
\* the visible subset that loading produced, the full store in store order,
\* and the cursor 0.
C15_ResetThenDebugIsLoadView ==
    [][(command = <<"r">> /\ command' = <<"0">>) =>
           /\ filtered_logs' = load_logs(file)
           /\ current_index' = 0]_vars

\* The threshold DEBUG was set on a store of two records and shows both.
C15_Witness ==
    /\ command = <<"0">>
    /\ Len(logs) = 2
    /\ filtered_logs = logs
    /\ current_level = DEBUG
    /\ current_index = 0
    /\ search_terms = <<>>
    /\ pc = "prompt"

\* The record pattern, stated as a decomposition of the text: a timestamp,
\* " [", one or more uppercase letters up to position a, "] ", one or more
\* word characters or colons up to position b, " - ", and at least one more
\* character that is not a newline.
MatchesRecordPattern(s) ==
    \E a, b \in 1..Len(s) :
        /\ MatchesDatetime(s)
        /\ HasAt(s, Len(DatetimePattern) + 1, <<" ", "[">>)
        /\ a >= Len(DatetimePattern) + 3
        /\ \A i \in (Len(DatetimePattern) + 3)..a : s[i] \in Upper
        /\ HasAt(s, a + 1, <<"]", " ">>)
        /\ b >= a + 3
        /\ \A i \in (a + 3)..b : s[i] \in SourceChar
        /\ HasAt(s, b + 1, <<" ", "-", " ">>)
        /\ Len(s) >= b + 4
        /\ s[b + 4] # "\n"

\* '<datetime> [<severity>] <source> - <message>'
Reconstruct(r) ==
    r.datetime \o <<" ", "[">> \o r.severity \o <<"]", " ">> \o r.source
               \o <<" ", "-", " ">> \o r.message

\* The four fields have the shape the pattern gives them.
WellFormedRecord(r) ==
    /\ Len(r.datetime) = Len(DatetimePattern) /\ MatchesDatetime(r.datetime)
    /\ r.severity # <<>> /\ \A i \in 1..Len(r.severity) : r.severity[i] \in Upper
    /\ r.source # <<>> /\ \A i \in 1..Len(r.source) : r.source[i] \in SourceChar
    /\ r.message # <<>>

\* The lines of the file as load_logs sees them, without surrounding white
\* space.
StrippedLines == [i \in 1..Len(file) |-> Strip(file[i])]

\* C16: the store is the file-order subsequence of the lines that match the
\* record pattern, one well-formed record per matching line, whose fields put
\* together give back the line; a line that does not match gives no record.
C16_StoreIsMatchingLines ==
    pc = "prompt" =>
        /\ [i \in 1..Len(logs) |-> Reconstruct(logs[i])]
               = SelectSeq(StrippedLines, MatchesRecordPattern)
        /\ \A i \in 1..Len(logs) : WellFormedRecord(logs[i])

\* A file of "not a log line" and a matching line was loaded into a store of
\* one record.
C16_Witness ==
    /\ pc = "prompt"
    /\ Len(file) = 2
    /\ file[1] = NotALogLine
    /\ Len(logs) = 1

\* C18: parse returns a record for every text that matches the record
\* pattern (the lines of the file, as written and stripped), and parsing the
\* line put together from a record's fields returns an equal record.
C18_ParseTotalAndIdempotent ==
    pc = "prompt" =>
        /\ \A i \in 1..Len(file) : \A s \in {file[i], Strip(file[i])} :
               MatchesRecordPattern(s) =>
                   /\ parse_log_line(s) # None
                   /\ parse_log_line(Reconstruct(parse_log_line(s))) = parse_log_line(s)
        /\ \A i \in 1..Len(logs) : parse_log_line(Reconstruct(logs[i])) = logs[i]

\* A store holds the record of a line whose message itself contains " - "
\* and a bracketed word.
C18_Witness ==
    /\ pc = "prompt"
    /\ \E i \in 1..Len(logs) : Len(logs[i].message) > 5

\* The positions of a set of spans <<first, last>>.
Covered(spans) == UNION {sp[1]..sp[2] : sp \in spans}

\* The occurrences of the term in the text from position p on, left to right
\* and non-overlapping, that touch no position already claimed.
RECURSIVE TermSpans(_, _, _, _)
TermSpans(term, text, p, claimed) ==
    IF p > Len(text)
    THEN {}
    ELSE IF MatchAt(text, p, term) /\ (p..(p + Len(term) - 1)) \cap claimed = {}
         THEN {<<p, p + Len(term) - 1>>}
                  \cup TermSpans(term, text, p + Len(term), claimed)
         ELSE TermSpans(term, text, p + 1, claimed)

\* First match wins: the terms claim their occurrences in the order they
\* were added, on the text of the message itself.
RECURSIVE ClaimedSpans(_, _, _)
ClaimedSpans(terms, text, spans) ==
    IF terms = <<>>
    THEN spans
    ELSE ClaimedSpans(Tail(terms), text,
                      spans \cup TermSpans(Head(terms), text, 1, Covered(spans)))

\* The text with each span between the markup and the reset.
RECURSIVE RenderSpans(_, _, _)
RenderSpans(text, spans, p) ==
    IF p > Len(text)
    THEN <<>>
    ELSE IF \E sp \in spans : sp[1] = p
         THEN LET sp == CHOOSE sp \in spans : sp[1] = p
              IN  BackYellow \o ForeBlack \o SubSeq(text, p, sp[2]) \o ResetAll
                      \o RenderSpans(text, spans, sp[2] + 1)
         ELSE <<text[p]>> \o RenderSpans(text, spans, p + 1)

\* C17: the highlighted message of every visible record is the message with
\* exactly the first-match-wins occurrences marked: terms applied in the
\* order added, case-insensitively, and neither the text claimed by an
\* earlier term nor the markup around it matched again by a later term.
C17_FirstMatchWins ==
    \A i \in 1..Len(filtered_logs) :
        apply_search_highlight(filtered_logs[i].message)
            = RenderSpans(filtered_logs[i].message,
                          ClaimedSpans(search_terms, filtered_logs[i].message, {}), 1)

\* C19: a range query leaves the store, the threshold, the cursor and the
\* search terms as they were, and a '+' or '-' that follows a range query
\* steps from the threshold the range query left in place, i.e. the one set
\* before it.
C19_RangeQueryKeepsThreshold ==
    [][LET k == Index(levels, current_level)
       IN  /\ Branch(command') = "range" =>
                  UNCHANGED <<logs, current_level, current_index, search_terms>>
           /\ (Branch(command) = "range" /\ command' = <<"+">>) =>
                  current_level' = levels[IF k < Len(levels) - 1 THEN k + 2 ELSE k + 1]
           /\ (Branch(command) = "range" /\ command' = <<"-">>) =>
                  current_level' = levels[IF k > 0 THEN k ELSE k + 1]]_vars

\* A range query for another level than the threshold has just replaced
\* the visible subset, with the cursor off 0 and a search term active.
C19_Witness ==
    /\ ValidRange(command)
    /\ output = "display"
    /\ current_level \notin {DEBUG, levels[RangeLevel(command) + 1]}
    /\ filtered_logs # ThresholdView(Index(levels, current_level))
    /\ current_index = 1
    /\ search_terms # <<>>

\* The visible subset is the threshold view of the current threshold.
ThresholdConsistent == filtered_logs = ThresholdView(Index(levels, current_level))

\* C20: the visible subset is the threshold view of the current threshold in
\* the load state (no command read yet) and after every threshold command that displays and every
\* reset; a step that is not a range query never takes the viewer from a
\* consistent state to an inconsistent one; and while the visible subset
\* differs from the threshold view, a command that is neither a threshold
\* command, a reset nor a range query leaves it different.
C20_ThresholdViewConsistency ==
    [][/\ command = <<>> => ThresholdConsistent
       /\ ((ThresholdCommand(command') /\ output' = "display")
               \/ Branch(command') = "reset") => ThresholdConsistent'
       /\ (ThresholdConsistent /\ Branch(command') # "range") => ThresholdConsistent'
       /\ (~ThresholdConsistent
               /\ ~ThresholdCommand(command')
               /\ Branch(command') \notin {"reset", "range"}) => ~ThresholdConsistent']_vars

====
